---- MODULE Spec2Model ----
(***************************************************************************)
(* Model of mine_mof_oxstate/featurize.py: the GetFeatures class.          *)
(*                                                                         *)
(* A path is a sequence of one-character strings, so that Path(..).stem    *)
(* and os.path.join are computed character by character as Python does.    *)
(* The file system (fs), the log files (logs) and the handlers of the      *)
(* root logger (handlers) are process state shared by all instances.       *)
(***************************************************************************)
EXTENDS Integers, Sequences, FiniteSets, TLC

VARIABLES objs,      \* the GetFeatures instances constructed so far
          inputs,    \* inputs[i]: what read(objs[i].path) finds on disk
          runs,      \* runs[i]: run_featurization calls made on objs[i]
          handlers,  \* file names of the root logger's handlers
          logs,      \* log file name -> sequence of lines
          fs,        \* output file name -> content
          last       \* the most recent run_featurization call, as observed

vars == <<objs, inputs, runs, handlers, logs, fs, last>>

(* Bounds of the model. *)
MaxSites == 3
MaxRuns == 2
MaxObjs == 2
MaxPathLen == 5

(***************************************************************************)
(* Strings.                                                                *)
(***************************************************************************)
PKL == <<".", "p", "k", "l">>
LOG == <<"l", "o", "g">>
SLASH == "/"
DOT == "."

\* str.rfind(c), 1-based; 0 when c does not occur (Python's -1)
RECURSIVE rfind(_, _, _)
rfind(s, c, i) ==
    IF i = 0 THEN 0
    ELSE IF s[i] = c THEN i
    ELSE rfind(s, c, i - 1)

\* str.find(c), 1-based; 0 when c does not occur
RECURSIVE find(_, _, _)
find(s, c, i) ==
    IF i > Len(s) THEN 0
    ELSE IF s[i] = c THEN i
    ELSE find(s, c, i + 1)

\* pathlib's parsing of a POSIX path into its parts: split on "/", empty
\* parts and "." parts dropped (the root is not a name and is not kept here)
RECURSIVE parse_parts(_, _, _, _)
parse_parts(s, i, cur, acc) ==
    LET keep == IF cur = <<>> \/ cur = <<DOT>> THEN acc ELSE Append(acc, cur)
    IN  IF i > Len(s) THEN keep
        ELSE IF s[i] = SLASH THEN parse_parts(s, i + 1, <<>>, keep)
        ELSE parse_parts(s, i + 1, Append(cur, s[i]), acc)

\* PurePath.name: the final part, "" when there is none
name(p) ==
    LET parts == parse_parts(p, 1, <<>>, <<>>)
    IN  IF parts = <<>> THEN <<>> ELSE parts[Len(parts)]

\* a plausible slip: everything from the first dot on is cut
stem_first_dot(p) ==
    LET n == name(p)
        j == find(n, DOT, 1)
    IN  IF 1 < j /\ j < Len(n) THEN SubSeq(n, 1, j - 1) ELSE n

\* PurePath.stem: the name without its last suffix; a leading dot or a
\* trailing dot is no suffix
stem(p) ==
    LET n == name(p)
        j == rfind(n, DOT, Len(n))
    IN  IF 1 < j /\ j < Len(n) THEN SubSeq(n, 1, j - 1) ELSE n

\* os.path.join(a, b) on POSIX
join(a, b) ==
    IF b # <<>> /\ b[1] = SLASH THEN b
    ELSE IF a = <<>> \/ a[Len(a)] = SLASH THEN a \o b
    ELSE a \o <<SLASH>> \o b

(***************************************************************************)
(* Structures.  A site has a species label and coordinates; the sites of   *)
(* one structure have pairwise different coordinates.                      *)
(***************************************************************************)
Species == {"Fe", "Cu", "O", "X"}

\* Element.is_metal of site.species.elements[0]; "X" is the dummy species
\* (ASE's symbol for atomic number 0), which has no such attribute
is_metal(sp) ==
    CASE sp \in {"Fe", "Cu"} -> "True"
      [] sp = "O" -> "False"
      [] OTHER -> "AttributeError"

CoordsAt(k) == <<k, 2 * k, 0>>

SitesOf(sp) == [k \in 1..Len(sp) |-> [species_string |-> sp[k], coords |-> CoordsAt(k)]]

SpeciesSeqs(n) == UNION {[1..m -> Species] : m \in 0..n}

\* what read(path) and the adaptor find: a structure, or a failure of either
FileOk(sp) == [kind |-> "ok", sites |-> SitesOf(sp)]
FileBad(why) == [kind |-> why, sites |-> <<>>]
Files(n) == {FileBad("read_raises"), FileBad("adaptor_raises")}
               \cup {FileOk(sp) : sp \in SpeciesSeqs(n)}

None == [none |-> TRUE, sites |-> <<>>]
Structure(sites) == [none |-> FALSE, sites |-> sites]

EmptyDict == [k \in {} |-> 0]

(***************************************************************************)
(* Logging.                                                                *)
(***************************************************************************)
\* a slip: a file handler is added on every call
basicConfig_every_call(h, lg, filename) ==
    [handlers |-> Append(h, filename),
     logs |-> IF filename \in DOMAIN lg THEN lg ELSE (filename :> <<>>) @@ lg]

\* logging.basicConfig(filename=...): does nothing when the root logger
\* already has a handler; otherwise adds one FileHandler, which opens
\* (creates) its file in append mode at once
basicConfig(h, lg, filename) ==
    IF h # <<>> THEN [handlers |-> h, logs |-> lg]
    ELSE [handlers |-> <<filename>>,
          logs |-> IF filename \in DOMAIN lg THEN lg ELSE (filename :> <<>>) @@ lg]

\* self.logger.error(msg): the module logger has no handler of its own and
\* propagates to the root logger, each of whose handlers writes the line
RECURSIVE logger_error(_, _, _)
logger_error(h, lg, line) ==
    IF h = <<>> THEN lg
    ELSE logger_error(Tail(h), [lg EXCEPT ![Head(h)] = Append(@, line)], line)

\* 'could not load {}'.format(path), 'could not featurize {}'.format(path)
ErrorLine(msg, path) == [level |-> "ERROR", msg |-> msg, path |-> path]

(***************************************************************************)
(* The GetFeatures class.                                                  *)
(***************************************************************************)
\* __init__, the fields it sets (the logging call is in Construct)
GetFeatures(structure, outpath) ==
    [outpath |-> outpath,
     path |-> structure,
     structure |-> None,
     metal_sites |-> <<>>,
     metal_indices |-> <<>>,
     features |-> EmptyDict,
     outname |-> join(outpath, stem(structure) \o PKL)]

\* precheck: True and self.structure set when read and the adaptor both
\* succeed, False (and nothing stored) when either raises
precheck(o, file) ==
    IF file.kind = "ok"
    THEN [ret |-> TRUE, obj |-> [o EXCEPT !.structure = Structure(file.sites)]]
    ELSE [ret |-> FALSE, obj |-> o]

\* the loop of get_metal_sites from Python index idx on; a raise of
\* is_metal leaves what was appended so far
RECURSIVE scan_sites(_, _, _, _)
scan_sites(sites, idx, ms, mi) ==
    IF idx >= Len(sites) THEN [metal_sites |-> ms, metal_indices |-> mi, raised |-> FALSE]
    ELSE LET site == sites[idx + 1]
             m == is_metal(site.species_string)
         IN  IF m = "AttributeError"
             THEN [metal_sites |-> ms, metal_indices |-> mi, raised |-> TRUE]
             ELSE IF m = "True"
             THEN scan_sites(sites, idx + 1, Append(ms, site), Append(mi, idx))
             ELSE scan_sites(sites, idx + 1, ms, mi)

\* get_metal_sites: appends to the lists the instance already holds;
\* iterating over None raises
get_metal_sites(o) ==
    IF o.structure.none THEN [obj |-> o, raised |-> TRUE]
    ELSE LET r == scan_sites(o.structure.sites, 0, o.metal_sites, o.metal_indices)
         IN  [obj |-> [o EXCEPT !.metal_sites = r.metal_sites,
                                !.metal_indices = r.metal_indices],
              raised |-> r.raised]

\* get_feature_vectors(site): the vector the external featurizer returns for
\* site index `site` of the structure
get_feature_vectors(structure, site) ==
    [site |-> site, species |-> structure.sites[site + 1].species_string]

\* self.features[label][key] = val on a defaultdict(dict)
SetItem(features, label, key, val) ==
    LET entry == IF label \in DOMAIN features THEN features[label] ELSE EmptyDict
    IN  (label :> ((key :> val) @@ entry)) @@ features

\* a slip: a label already present is not overwritten
store_site_first_wins(o, idx, features) ==
    LET metal_site == o.metal_sites[idx + 1]
        label == metal_site.species_string
        X == get_feature_vectors(o.structure, o.metal_indices[idx + 1])
    IN  IF label \in DOMAIN features THEN features
        ELSE SetItem(SetItem(features, label, "feature", X),
                     label, "coords", metal_site.coords)

\* a slip: the coordinates are read at the loop index, not at the metal index
store_site_coords_by_loop_index(o, idx, features) ==
    LET metal_site == o.metal_sites[idx + 1]
        label == metal_site.species_string
        X == get_feature_vectors(o.structure, o.metal_indices[idx + 1])
    IN  SetItem(SetItem(features, label, "feature", X),
                label, "coords", o.structure.sites[idx + 1].coords)

\* one iteration of the loop whose featurizer call returned: the two
\* assignments, 'feature' then 'coords'
store_site(o, idx, features) ==
    LET metal_site == o.metal_sites[idx + 1]
        label == metal_site.species_string
        X == get_feature_vectors(o.structure, o.metal_indices[idx + 1])
    IN  SetItem(SetItem(features, label, "feature", X),
                label, "coords", metal_site.coords)

Call(op, arg, raised) == [op |-> op, arg |-> arg, raised |-> raised]

\* a slip: a site whose featurizer call raises is skipped and the loop goes on
RECURSIVE featurize_loop_skip_failed(_, _, _, _, _)
featurize_loop_skip_failed(o, idx, failAt, features, calls) ==
    IF idx >= Len(o.metal_sites)
    THEN [features |-> features, calls |-> calls, raised |-> FALSE]
    ELSE LET c == Call("get_feature_vectors", o.metal_indices[idx + 1], idx + 1 = failAt)
         IN  IF idx + 1 = failAt
             THEN featurize_loop_skip_failed(o, idx + 1, failAt, features, Append(calls, c))
             ELSE featurize_loop_skip_failed(o, idx + 1, failAt, store_site(o, idx, features),
                                             Append(calls, c))

\* the for loop of run_featurization from Python index idx on; the failAt-th
\* featurizer call raises (0: none does).  The right-hand side is evaluated
\* before self.features[label], so a raising call adds no entry
RECURSIVE featurize_loop(_, _, _, _, _)
featurize_loop(o, idx, failAt, features, calls) ==
    IF idx >= Len(o.metal_sites)
    THEN [features |-> features, calls |-> calls, raised |-> FALSE]
    ELSE LET c == Call("get_feature_vectors", o.metal_indices[idx + 1], idx + 1 = failAt)
         IN  IF idx + 1 = failAt
             THEN [features |-> features, calls |-> Append(calls, c), raised |-> TRUE]
             ELSE featurize_loop(o, idx + 1, failAt, store_site(o, idx, features),
                                 Append(calls, c))

\* outcomes of dump_features: it returns; open() raises; pickle.dump raises
\* after open() created or truncated the file, which is then left empty or
\* with part of the stream
DumpOutcomes == {"ok", "open_raises", "dump_raises_empty", "dump_raises_partial"}

\* dump_features: open(self.outname, 'wb'), then pickle.dump(dict(features))
dump_features(files, o, outcome) ==
    CASE outcome = "ok" ->
           [fs |-> (o.outname :> [kind |-> "pickle", data |-> o.features]) @@ files,
            raised |-> FALSE]
      [] outcome = "open_raises" -> [fs |-> files, raised |-> TRUE]
      [] outcome = "dump_raises_empty" ->
           [fs |-> (o.outname :> [kind |-> "empty", data |-> EmptyDict]) @@ files,
            raised |-> TRUE]
      [] OTHER ->
           [fs |-> (o.outname :> [kind |-> "partial", data |-> EmptyDict]) @@ files,
            raised |-> TRUE]

\* lines 89-96 of run_featurization: the try block (the loop, then
\* dump_features) and its except clause, which logs and returns
try_block(o, h, lg, files, failAt, dumpOutcome, calls) ==
    LET loop == featurize_loop(o, 0, failAt, o.features, calls)
        o2 == [o EXCEPT !.features = loop.features]
        d == dump_features(files, o2, dumpOutcome)
        logged == logger_error(h, lg, ErrorLine("could not featurize", o.path))
        err == Call("logger.error", -1, FALSE)
    IN  IF loop.raised
        THEN [obj |-> o2, logs |-> logged, fs |-> files,
              calls |-> Append(loop.calls, err), raised |-> FALSE]
        ELSE IF d.raised
        THEN [obj |-> o2, logs |-> logged, fs |-> d.fs,
              calls |-> loop.calls \o <<Call("dump_features", -1, TRUE), err>>,
              raised |-> FALSE]
        ELSE [obj |-> o2, logs |-> lg, fs |-> d.fs,
              calls |-> Append(loop.calls, Call("dump_features", -1, FALSE)),
              raised |-> FALSE]

\* run_featurization on instance o: the instance, the logs and the files
\* it leaves, the calls it made in order, and whether an exception reached
\* the caller.  get_metal_sites is called outside the try block
run_featurization(o, file, h, lg, files, failAt, dumpOutcome) ==
    LET pre == precheck(o, file)
        c0 == <<Call("precheck", -1, FALSE)>>
    IN  IF pre.ret
        THEN LET g == get_metal_sites(pre.obj)
                 c1 == Append(c0, Call("get_metal_sites", -1, g.raised))
             IN  IF g.raised
                 THEN [obj |-> g.obj, logs |-> lg, fs |-> files, calls |-> c1,
                       raised |-> TRUE]
                 ELSE try_block(g.obj, h, lg, files, failAt, dumpOutcome, c1)
        ELSE [obj |-> pre.obj,
              logs |-> logger_error(h, lg, ErrorLine("could not load", o.path)),
              fs |-> files,
              calls |-> Append(c0, Call("logger.error", -1, FALSE)),
              raised |-> FALSE]

\* the number of featurizer calls a run of o can make: the metal sites the
\* instance holds once get_metal_sites has returned
CallsOf(o, file) ==
    LET pre == precheck(o, file)
    IN  IF pre.ret THEN Len(get_metal_sites(pre.obj).obj.metal_sites) ELSE 0

\* the ways dump_features can end in a run of o: it is reached only when
\* the structure loads, get_metal_sites returns and no featurizer call raises
DumpOutcomesOf(o, file, failAt) ==
    LET pre == precheck(o, file)
    IN  IF pre.ret /\ ~get_metal_sites(pre.obj).raised /\ failAt = 0
        THEN DumpOutcomes ELSE {"ok"}

(***************************************************************************)
(* Actions.                                                                *)
(***************************************************************************)
NoRun == [obj |-> 0, calls |-> <<>>, raised |-> FALSE, fresh |-> FALSE]

\* GetFeatures(path, outpath): __init__, in a process where the file at
\* path holds `file`
Construct(path, outpath, file) ==
    LET b == basicConfig(handlers, logs, join(outpath, LOG))
    IN  /\ objs' = Append(objs, GetFeatures(path, outpath))
        /\ inputs' = Append(inputs, file)
        /\ runs' = Append(runs, 0)
        /\ handlers' = b.handlers
        /\ logs' = b.logs
        /\ UNCHANGED <<fs, last>>

\* objs[i].run_featurization(), whichever featurizer call raises (if any)
\* and however dump_features ends
Run(i) ==
    \E failAt \in 0..CallsOf(objs[i], inputs[i]) :
      \E dumpOutcome \in DumpOutcomesOf(objs[i], inputs[i], failAt) :
        LET r == run_featurization(objs[i], inputs[i], handlers, logs, fs,
                                   failAt, dumpOutcome)
        IN  /\ objs' = [objs EXCEPT ![i] = r.obj]
            /\ runs' = [runs EXCEPT ![i] = @ + 1]
            /\ logs' = r.logs
            /\ fs' = r.fs
            /\ last' = [obj |-> i, calls |-> r.calls, raised |-> r.raised,
                        fresh |-> runs[i] = 0]
            /\ UNCHANGED <<inputs, handlers>>

RECURSIVE Sum(_)
Sum(s) == IF s = <<>> THEN 0 ELSE Head(s) + Sum(Tail(s))

\* a process that has constructed nothing yet
Fresh ==
    /\ objs = <<>>
    /\ inputs = <<>>
    /\ runs = <<>>
    /\ handlers = <<>>
    /\ logs = EmptyDict
    /\ fs = EmptyDict
    /\ last = NoRun

\* the state right after the first GetFeatures(path, outpath) of a process
Constructed(path, outpath, file) ==
    LET b == basicConfig(<<>>, EmptyDict, join(outpath, LOG))
    IN  /\ objs = <<GetFeatures(path, outpath)>>
        /\ inputs = <<file>>
        /\ runs = <<0>>
        /\ handlers = b.handlers
        /\ logs = b.logs
        /\ fs = EmptyDict
        /\ last = NoRun

(***************************************************************************)
(* Spec: one instance, every structure of up to MaxSites sites, up to      *)
(* MaxRuns calls of run_featurization on it.                               *)
(***************************************************************************)
InPath == <<"d", "/", "f", ".", "c">>
OutDir == <<"o">>

Init == \E file \in Files(MaxSites) : Constructed(InPath, OutDir, file)

RunAny == \E i \in 1..Len(objs) : runs[i] < MaxRuns /\ Run(i)

Next == RunAny

Spec == Init /\ [][Next]_vars

(***************************************************************************)
(* SpecProc: one process that constructs up to MaxObjs instances, with     *)
(* different output directories, and runs them up to MaxRuns times in all. *)
(***************************************************************************)
ProcInputs ==
    {<<(<<"d", "/", "f", ".", "d">>), FileBad("read_raises")>>,
     <<(<<"f", "/", "d", ".", "f">>), FileBad("adaptor_raises")>>,
     <<(<<"d", ".", "d">>), FileOk(<<"Fe">>)>>}

ProcOutDirs == {<<"o">>, <<"p">>}

ConstructAny ==
    \E in \in ProcInputs, outpath \in ProcOutDirs :
        Len(objs) < MaxObjs /\ Construct(in[1], outpath, in[2])

RunProc == \E i \in 1..Len(objs) : Sum(runs) < MaxRuns /\ Run(i)

NextProc == ConstructAny \/ RunProc

SpecProc == Fresh /\ [][NextProc]_vars

(***************************************************************************)
(* SpecPath: one instance constructed for any input path of up to          *)
(* MaxPathLen characters, then run.                                        *)
(***************************************************************************)
Alphabet == {"d", "f", DOT, SLASH}

AllPaths == UNION {[1..m -> Alphabet] : m \in 0..MaxPathLen}

PathOutDirs == {<<"o">>, <<"o", SLASH>>}

InitPath ==
    \E path \in AllPaths, outpath \in PathOutDirs :
        Constructed(path, outpath, FileBad("read_raises"))

SpecPath == InitPath /\ [][Next]_vars

(***************************************************************************)
(* Vocabulary of the properties.  The metal sites of a structure are       *)
(* stated here from the species labels, not through get_metal_sites.       *)
(***************************************************************************)
Ran == last.obj # 0
LastObj == objs[last.obj]
LastSites == inputs[last.obj].sites
Loaded == Ran /\ inputs[last.obj].kind = "ok"

\* run_featurization was called on objs[i] in this step
Stepped(i) == i <= Len(runs) /\ runs'[i] = runs[i] + 1

OpsOf(calls) == [k \in 1..Len(calls) |-> calls[k].op]
Made(l, op) == {k \in 1..Len(l.calls) : l.calls[k].op = op}
FeaturizeRaised(l) == \E k \in Made(l, "get_feature_vectors") : l.calls[k].raised
DumpRaised(l) == \E k \in Made(l, "dump_features") : l.calls[k].raised
DumpReturned(l) == \E k \in Made(l, "dump_features") : ~l.calls[k].raised
NoCallRaised(l) == \A k \in 1..Len(l.calls) : ~l.calls[k].raised

MetalLabels == {"Fe", "Cu"}
Classified == \A k \in 1..Len(LastSites) : LastSites[k].species_string \in MetalLabels \cup {"O"}
MetalPositions == {k \in 1..Len(LastSites) : LastSites[k].species_string \in MetalLabels}
LabelAt(k) == LastSites[k].species_string
SameLabel(k) == {j \in MetalPositions : LabelAt(j) = LabelAt(k)}
DistinctLabels == \A k \in MetalPositions : SameLabel(k) = {k}
LastWith(k) == CHOOSE m \in SameLabel(k) : \A j \in SameLabel(k) : j <= m

Written == LastObj.outname \in DOMAIN fs /\ fs[LastObj.outname].kind = "pickle"
Data == fs[LastObj.outname].data

\* the written mapping has one entry per metal site, keyed by its label and
\* holding that site's coordinates
OnePerSite ==
    /\ Written
    /\ DOMAIN Data = {LabelAt(k) : k \in MetalPositions}
    /\ Cardinality(DOMAIN Data) = Cardinality(MetalPositions)
    /\ \A k \in MetalPositions :
          /\ DOMAIN Data[LabelAt(k)] = {"feature", "coords"}
          /\ Data[LabelAt(k)].coords = LastSites[k].coords

(***************************************************************************)
(* C1.  If the structure loads and the featurizer call raises for one      *)
(* metal site, whichever it is, the run writes no file: dump_features is   *)
(* not called and the file system is as it was before the run.             *)
(***************************************************************************)
C1_AllOrNothing ==
    [][\A i \in 1..Len(objs) :
          (Stepped(i) /\ FeaturizeRaised(last'))
              => (fs' = fs /\ Made(last', "dump_features") = {})]_vars

\* a run in which the second featurizer call raised, after the first returned
C1_Witness ==
    /\ Loaded
    /\ \E j, k \in Made(last, "get_feature_vectors") :
          j < k /\ ~last.calls[j].raised /\ last.calls[k].raised

(***************************************************************************)
(* C2.  A run on a file that fails to parse, in read or in the adaptor,    *)
(* writes no file and adds exactly one line to the log files, an error     *)
(* naming the input path; only precheck and the logger are called.         *)
(***************************************************************************)
C2_LoadFailure ==
    [][\A i \in 1..Len(objs) :
          (Stepped(i) /\ inputs[i].kind # "ok")
              => /\ fs' = fs
                 /\ DOMAIN logs' = DOMAIN logs
                 /\ \E f \in DOMAIN logs :
                       /\ Len(logs'[f]) = Len(logs[f]) + 1
                       /\ SubSeq(logs'[f], 1, Len(logs[f])) = logs[f]
                       /\ logs'[f][Len(logs'[f])].level = "ERROR"
                       /\ logs'[f][Len(logs'[f])].path = objs[i].path
                       /\ \A g \in DOMAIN logs \ {f} : logs'[g] = logs[g]
                 /\ OpsOf(last'.calls) = <<"precheck", "logger.error">>
                 /\ ~last'.raised]_vars

\* the second instance of a process was run on a file the adaptor rejects
C2_Witness ==
    /\ Ran
    /\ last.obj = 2
    /\ inputs[2].kind = "adaptor_raises"
    /\ \E f \in DOMAIN logs : logs[f] # <<>>

(***************************************************************************)
(* C3.  No exception of any step of a run reaches the caller of            *)
(* run_featurization.                                                      *)
(***************************************************************************)
C3_NeverRaises == ~last.raised

C5_LastSiteWins ==
    (Loaded /\ DumpReturned(last))
        => /\ Written
           /\ \A k \in MetalPositions :
                 SameLabel(k) # {k}
                    => /\ LabelAt(k) \in DOMAIN Data
                       /\ Data[LabelAt(k)].coords = LastSites[LastWith(k)].coords
                       /\ Data[LabelAt(k)].feature.site = LastWith(k) - 1

\* a run that wrote a structure with the same metal label at two sites
C5_Witness ==
    /\ Loaded /\ DumpReturned(last)
    /\ \E k \in MetalPositions : SameLabel(k) # {k}

(***************************************************************************)
(* C6.  Every line an instance logs goes to the log file of its own        *)
(* output directory, <outpath>/log, and to no other log file.              *)
(***************************************************************************)
C6_OwnLog ==
    [][\A i \in 1..Len(objs) :
          Stepped(i)
              => \A f \in DOMAIN logs :
                    logs'[f] # logs[f] => f = objs[i].outpath \o <<SLASH>> \o LOG]_vars

(***************************************************************************)
(* C7.  The output path is <outpath>/<stem>.pkl, where for an input path   *)
(* ending in a name s.e (e a suffix: no dot, no slash) the stem is s, and  *)
(* for one ending in a name s without a dot the stem is s: directories and *)
(* extension of the input do not matter.  It stays so after any run.       *)
(***************************************************************************)
NoChar(s, c) == \A k \in 1..Len(s) : s[k] # c
DirOf(o) ==
    IF o.outpath[Len(o.outpath)] = SLASH
    THEN SubSeq(o.outpath, 1, Len(o.outpath) - 1) ELSE o.outpath
NamedAfter(o, s) == o.outname = DirOf(o) \o <<SLASH>> \o s \o PKL

C7_OutputNaming ==
    \A i \in 1..Len(objs) :
        LET p == objs[i].path
        IN  \A a \in 0..Len(p) :
               (a = 0 \/ p[a] = SLASH)
                  => /\ \A b \in (a + 2)..(Len(p) - 1) :
                           LET s == SubSeq(p, a + 1, b - 1)
                               e == SubSeq(p, b + 1, Len(p))
                           IN  (p[b] = DOT /\ NoChar(s, SLASH)
                                   /\ NoChar(e, SLASH) /\ NoChar(e, DOT))
                                  => NamedAfter(objs[i], s)
                     /\ LET s == SubSeq(p, a + 1, Len(p))
                        IN  (s # <<>> /\ NoChar(s, SLASH) /\ NoChar(s, DOT))
                               => NamedAfter(objs[i], s)

\* an instance for d/f.d, run once, whose output is o/f.pkl
C7_Witness ==
    \E i \in 1..Len(objs) :
        /\ objs[i].path = <<"d", SLASH, "f", DOT, "d">>
        /\ objs[i].outname = <<"o", SLASH, "f", DOT, "p", "k", "l">>
        /\ runs[i] > 0

(***************************************************************************)
(* C8.  If dump_features raises, the error is logged and the run leaves    *)
(* no file at outname, neither complete nor empty or truncated.            *)
(***************************************************************************)
C8_NoArtifact ==
    [][\A i \in 1..Len(objs) :
          (Stepped(i) /\ DumpRaised(last'))
              => /\ "logger.error" \in {last'.calls[k].op : k \in 1..Len(last'.calls)}
                 /\ fs' = fs]_vars

(***************************************************************************)
(* C9.  After any run on an instance whose structure loads, metal_sites    *)
(* and metal_indices are parallel, and hold exactly the metal sites of the *)
(* structure, each once, in structure order, with their positions.         *)
(***************************************************************************)
C9_MetalSitesExact ==
    (Loaded /\ Classified)
        => LET ms == LastObj.metal_sites
               mi == LastObj.metal_indices
           IN  /\ Len(ms) = Len(mi)
               /\ Len(ms) = Cardinality(MetalPositions)
               /\ \A j \in 1..Len(mi) :
                     /\ mi[j] + 1 \in MetalPositions
                     /\ ms[j] = LastSites[mi[j] + 1]
               /\ \A j, k \in 1..Len(mi) : j < k => mi[j] < mi[k]

(***************************************************************************)
(* C10.  When a featurizer call raises, no later site is featurized, no    *)
(* file is written, and the features mapping of the instance holds no      *)
(* entry for the sites featurized before the failing one.                  *)
(***************************************************************************)
C10_NoPartialProgress ==
    (Loaded /\ FeaturizeRaised(last))
        => \A k \in Made(last, "get_feature_vectors") :
              /\ last.calls[k].raised
                    => /\ \A j \in Made(last, "get_feature_vectors") : j <= k
                       /\ Made(last, "dump_features") = {}
              /\ ~last.calls[k].raised
                    => LabelAt(last.calls[k].arg + 1) \notin DOMAIN LastObj.features

====
